---- MODULE Spec2Model ----
(***************************************************************************)
(* Inquis expense tracker: the desktop variant (expnctrackerv2.py, Tk) and  *)
(* the browser variant (expnctrackerv3.py, Streamlit) over the SQLite table *)
(* expenses of the file expenses.db.                                        *)
(*                                                                          *)
(* Text the code inspects character by character (descriptions, the amount *)
(* entry, the selectbox labels) is a sequence of one-character strings;    *)
(* category labels, which the code only stores and compares, are strings.  *)
(* Amounts are the integers among the REAL values of the column.           *)
(***************************************************************************)
EXTENDS Integers, Sequences, FiniteSets, TLC

VARIABLES
    variant,      \* which program is running: "desktop" (v2) or "browser" (v3)
    today,        \* the calendar day datetime.now() falls on
    expenses,     \* the rows of table expenses (a set of records, keyed by id)
    seq,          \* sqlite_sequence.seq of the table: the largest id ever assigned
    assigned,     \* history: every id an INSERT has assigned so far
    returned,     \* what the delete_expense call of the last step returned ("" if none)
    desc_entry,   \* v2: content of the Description entry
    amt_entry,    \* v2: content of the Amount entry
    cat_entry,    \* v2: content of the Category entry
    tree,         \* v2: the rows of the Treeview, top to bottom
    total_label,  \* v2: the amount the total label shows
    chart,        \* v2: the data of the open chart window
    msg,          \* the message box (v2) or status line (v3) now shown
    df,           \* v3: the data frame the script holds at the end of a run
    report,       \* v3: what the Reports tab shows
    description,  \* categorizer harness: the description handed to suggest_category
    label2,       \* categorizer harness: what v2's suggest_category returned
    label3        \* categorizer harness: what v3's suggest_category returned

vars == <<variant, today, expenses, seq, assigned, returned, desc_entry, amt_entry,
          cat_entry, tree, total_label, chart, msg, df, report,
          description, label2, label3>>

storeVars == <<variant, today, expenses, seq, assigned, returned, desc_entry,
               amt_entry, cat_entry, tree, total_label, chart, msg, df, report>>

catVars == <<description, label2, label3>>

----------------------------------------------------------------------------
(* Bounds of the model *)

MaxId == 2        \* INSERT is not taken once seq has reached MaxId
MaxDay == 2       \* the calendar days are 1..MaxDay
MaxFrags == 2     \* a harness description is made of at most MaxFrags fragments

----------------------------------------------------------------------------
(* Text *)

UpperLetters == <<"A","B","C","D","E","F","G","H","I","J","K","L","M",
                  "N","O","P","Q","R","S","T","U","V","W","X","Y","Z">>

LowerLetters == <<"a","b","c","d","e","f","g","h","i","j","k","l","m",
                  "n","o","p","q","r","s","t","u","v","w","x","y","z">>

\* str.lower() on one character
LowerChar(c) ==
    IF \E i \in 1..Len(UpperLetters) : UpperLetters[i] = c
    THEN LowerLetters[CHOOSE i \in 1..Len(UpperLetters) : UpperLetters[i] = c]
    ELSE c

\* str.lower()
Lower(s) == [i \in 1..Len(s) |-> LowerChar(s[i])]

\* Python's  word in desc  on strings: word is a contiguous substring of desc
Contains(word, desc) ==
    \E i \in 1..(Len(desc) - Len(word) + 1) :
        SubSeq(desc, i, i + Len(word) - 1) = word

\* Python's  any(word in desc for word in words)
AnyIn(words, desc) == \E k \in 1..Len(words) : Contains(words[k], desc)

kw_pizza == <<"p","i","z","z","a">>
kw_food == <<"f","o","o","d">>
kw_coffee == <<"c","o","f","f","e","e">>
kw_lunch == <<"l","u","n","c","h">>
kw_restaurant == <<"r","e","s","t","a","u","r","a","n","t">>
kw_snack == <<"s","n","a","c","k">>
kw_uber == <<"u","b","e","r">>
kw_bus == <<"b","u","s">>
kw_train == <<"t","r","a","i","n">>
kw_petrol == <<"p","e","t","r","o","l">>
kw_cab == <<"c","a","b">>
kw_rent == <<"r","e","n","t">>
kw_bill == <<"b","i","l","l">>
kw_recharge == <<"r","e","c","h","a","r","g","e">>
kw_electricity == <<"e","l","e","c","t","r","i","c","i","t","y">>
kw_doctor == <<"d","o","c","t","o","r">>
kw_pharmacy == <<"p","h","a","r","m","a","c","y">>
kw_medicine == <<"m","e","d","i","c","i","n","e">>
kw_hospital == <<"h","o","s","p","i","t","a","l">>
kw_amazon == <<"a","m","a","z","o","n">>
kw_clothes == <<"c","l","o","t","h","e","s">>
kw_mall == <<"m","a","l","l">>
kw_shopping == <<"s","h","o","p","p","i","n","g">>

----------------------------------------------------------------------------
(* Category suggestion *)

\* expnctrackerv2.py, suggest_category
suggest_category_v2(d) ==
    LET desc == Lower(d) IN
    IF AnyIn(<<kw_pizza, kw_food, kw_coffee, kw_lunch, kw_restaurant>>, desc)
    THEN "Food"
    ELSE IF AnyIn(<<kw_uber, kw_bus, kw_train, kw_petrol, kw_cab>>, desc)
    THEN "Travel"
    ELSE IF AnyIn(<<kw_rent, kw_bill, kw_recharge, kw_electricity>>, desc)
    THEN "Bills"
    ELSE IF AnyIn(<<kw_doctor, kw_pharmacy, kw_medicine, kw_hospital>>, desc)
    THEN "Health"
    ELSE IF AnyIn(<<kw_amazon, kw_clothes, kw_mall, kw_shopping>>, desc)
    THEN "Shopping"
    ELSE "Miscellaneous"

\* expnctrackerv3.py, suggest_category
suggest_category_v3(d) ==
    LET desc == Lower(d) IN
    IF AnyIn(<<kw_pizza, kw_food, kw_coffee, kw_restaurant, kw_snack>>, desc)
    THEN "Food"
    ELSE IF AnyIn(<<kw_uber, kw_bus, kw_train, kw_petrol, kw_cab>>, desc)
    THEN "Travel"
    ELSE IF AnyIn(<<kw_bill, kw_recharge, kw_rent, kw_electricity>>, desc)
    THEN "Bills"
    ELSE IF AnyIn(<<kw_doctor, kw_medicine, kw_hospital, kw_pharmacy>>, desc)
    THEN "Health"
    ELSE IF AnyIn(<<kw_amazon, kw_clothes, kw_mall, kw_shopping>>, desc)
    THEN "Shopping"
    ELSE "Miscellaneous"

----------------------------------------------------------------------------
(* Numbers as text *)

DigitChars == <<"0","1","2","3","4","5","6","7","8","9">>

IsDigit(c) == \E i \in 1..Len(DigitChars) : DigitChars[i] = c

DigitVal(c) == (CHOOSE i \in 1..Len(DigitChars) : DigitChars[i] = c) - 1

RECURSIVE DigitsValue(_)
\* the number a non-empty run of decimal digits denotes
DigitsValue(s) ==
    IF Len(s) = 0 THEN 0
    ELSE DigitsValue(SubSeq(s, 1, Len(s) - 1)) * 10 + DigitVal(s[Len(s)])

\* the digits of float(s)'s argument after an optional sign
Unsigned(s) == IF Len(s) > 0 /\ s[1] \in {"-", "+"} THEN Tail(s) ELSE s

\* float(s) does not raise ValueError (sign and digits; no fraction or exponent
\* occurs in the texts the model types)
FloatParses(s) ==
    /\ Len(Unsigned(s)) > 0
    /\ \A i \in 1..Len(Unsigned(s)) : IsDigit(Unsigned(s)[i])

\* float(s) where it parses
FloatOf(s) ==
    IF Len(s) > 0 /\ s[1] = "-" THEN 0 - DigitsValue(Unsigned(s))
    ELSE DigitsValue(Unsigned(s))

RECURSIVE Str(_)
\* str(n) for n >= 0
Str(n) ==
    IF n < 10 THEN <<DigitChars[n + 1]>>
    ELSE Str(n \div 10) \o <<DigitChars[(n % 10) + 1]>>

\* int(s) on a selectbox label that is not "None"
IntOf(s) == DigitsValue(s)

NoneLabel == <<"N","o","n","e">>

----------------------------------------------------------------------------
(* Inputs the user can give *)

d_empty == <<>>
d_Bus == <<"B","u","s">>
d_tea == <<"t","e","a">>

\* what the user types into a description field
DescTexts == {d_empty, d_Bus, d_tea}

\* what the user types into v2's amount entry
AmtTexts == {<<>>, <<"x">>, <<"-","5">>, <<"0","7">>}

\* what st.number_input(min_value=0.0) can hand to the script
AmtNumbers == {0, 7}

\* what the user types into a category field
CatTexts == {"Travel"}

Days == 1..MaxDay

----------------------------------------------------------------------------
(* The table *)

\* the largest rowid in the table, 0 when it is empty
MaxRowId(tbl) ==
    IF tbl = {} THEN 0
    ELSE CHOOSE m \in {r.id : r \in tbl} : \A r \in tbl : r.id <= m

\* the rowid a plain INTEGER PRIMARY KEY column would get
NextIdNoAutoincrement(tbl, sq) == MaxRowId(tbl) + 1

\* id INTEGER PRIMARY KEY AUTOINCREMENT: one more than the largest rowid the
\* table has ever held (sqlite_sequence) or holds now
NextId(tbl, sq) == (IF MaxRowId(tbl) > sq THEN MaxRowId(tbl) ELSE sq) + 1

\* an INSERT that stamps the day the program was written for, not today
InsertRowStaleDate(date, desc, amt, cat) ==
    LET id == NextId(expenses, seq) IN
    /\ expenses' = expenses \cup {[id |-> id, date |-> 1, description |-> desc,
                                   amount |-> amt, category |-> cat]}
    /\ seq' = id
    /\ assigned' = assigned \cup {id}

\* INSERT INTO expenses (date, description, amount, category) VALUES (?,?,?,?)
\* followed by conn.commit()
InsertRow(date, desc, amt, cat) ==
    LET id == NextId(expenses, seq) IN
    /\ expenses' = expenses \cup {[id |-> id, date |-> date, description |-> desc,
                                   amount |-> amt, category |-> cat]}
    /\ seq' = id
    /\ assigned' = assigned \cup {id}

\* DELETE FROM expenses WHERE id=?
DeleteWhereId(tbl, id) == {r \in tbl : r.id # id}

RECURSIVE ListAscending(_)
\* SELECT * FROM expenses ORDER BY id (ascending)
ListAscending(tbl) ==
    IF tbl = {} THEN <<>>
    ELSE LET low == CHOOSE r \in tbl : \A q \in tbl : r.id <= q.id
         IN <<low>> \o ListAscending(tbl \ {low})

RECURSIVE ListAll(_)
\* SELECT * FROM expenses ORDER BY id DESC
ListAll(tbl) ==
    IF tbl = {} THEN <<>>
    ELSE LET top == CHOOSE r \in tbl : \A q \in tbl : q.id <= r.id
         IN <<top>> \o ListAll(tbl \ {top})

RECURSIVE SetSum(_)
SetSum(tbl) ==
    IF tbl = {} THEN 0
    ELSE LET r == CHOOSE q \in tbl : TRUE IN r.amount + SetSum(tbl \ {r})

\* SELECT SUM(amount) FROM expenses: NULL (the empty set here) over no rows,
\* otherwise the one-element set of the sum
SelectSum(tbl) == IF tbl = {} THEN {} ELSE {SetSum(tbl)}

\* SELECT category, SUM(amount) FROM expenses GROUP BY category
SelectSumByCategory(tbl) ==
    [c \in {r.category : r \in tbl} |-> SetSum({r \in tbl : r.category = c})]

----------------------------------------------------------------------------
(* The data frame of the browser variant *)

RECURSIVE FrameSum(_)
\* df["amount"].sum()
FrameSum(frame) ==
    IF Len(frame) = 0 THEN 0 ELSE frame[1].amount + FrameSum(Tail(frame))

\* a grouping that keeps the first amount of each group instead of the sum
GroupFirst(frame, key) ==
    [k \in {frame[i][key] : i \in 1..Len(frame)} |->
        SelectSeq(frame, LAMBDA r : r[key] = k)[1].amount]

\* df.groupby(key)["amount"].sum()
GroupSum(frame, key) ==
    [k \in {frame[i][key] : i \in 1..Len(frame)} |->
        FrameSum(SelectSeq(frame, LAMBDA r : r[key] = k))]

\* get_all_expenses(): pd.read_sql("SELECT * FROM expenses ORDER BY id DESC")
get_all_expenses(tbl) == ListAll(tbl)

\* the Reports tab: nothing but an info line when df.empty, otherwise the
\* total and the two grouped sums (the set holds at most one report)
ReportsTab(frame) ==
    IF Len(frame) = 0 THEN {}
    ELSE {[total_spent |-> FrameSum(frame),
           cat_data |-> GroupSum(frame, "category"),
           daily_data |-> GroupSum(frame, "date")]}

----------------------------------------------------------------------------
(* Messages *)

MsgRequired == "Description and amount are required."
MsgNotNumber == "Amount must be a number."
MsgSelect == "Select an expense to delete."
MsgNoData == "No data to display."
MsgAdded == "Expense added successfully!"
MsgInvalid == "Enter valid description and amount."
MsgDeleted == "Expense deleted successfully!"

----------------------------------------------------------------------------
(* Initial state: expenses.db does not exist yet, and one of the two       *)
(* programs has been started on it                                          *)

\* the part of the state that belongs to the desktop program when it is not
\* running or has just built its widgets
DesktopFresh ==
    /\ desc_entry' = <<>>
    /\ amt_entry' = <<>>
    /\ cat_entry' = "Miscellaneous"
    /\ chart' = {}

\* an update_summary that sums only what was spent, not what was refunded
update_summary_positive(tbl) == SetSum({r \in tbl : r.amount > 0})

\* update_summary(): the number the total label is set to
update_summary(tbl) ==
    LET total == SelectSum(tbl)
    IN IF total = {} \/ total = {0} THEN 0 ELSE CHOOSE t \in total : TRUE

\* refresh_table(): the Treeview is emptied and refilled from the table, then the
\* total label is recomputed
refresh_table ==
    /\ tree' = ListAll(expenses')
    /\ total_label' = update_summary(expenses')

\* the tail of every run of the browser script: df = get_all_expenses() and
\* the Reports tab computed from it
RenderBrowser ==
    /\ df' = get_all_expenses(expenses')
    /\ report' = ReportsTab(df')

InitStore ==
    /\ variant \in {"desktop", "browser"}
    /\ today = 1
    /\ expenses = {}
    /\ seq = 0
    /\ assigned = {}
    /\ returned = ""
    /\ desc_entry = <<>>
    /\ amt_entry = <<>>
    /\ cat_entry = "Miscellaneous"
    /\ tree = <<>>
    /\ total_label = 0
    /\ chart = {}
    /\ msg = ""
    /\ df = <<>>
    /\ report = {}

Init ==
    /\ InitStore
    /\ description = <<>>
    /\ label2 = ""
    /\ label3 = ""

\* the model stops inserting at its bound
CanInsert == seq < MaxId

----------------------------------------------------------------------------
(* Desktop variant: the user's actions and the three button handlers.  A   *)
(* message box is modal: nothing else happens until it is dismissed.       *)

DesktopIdle == variant = "desktop" /\ msg = "" /\ chart = {}

\* the user edits the Description entry
TypeDescription(d) ==
    /\ DesktopIdle
    /\ desc_entry' = d
    /\ returned' = ""
    /\ UNCHANGED <<variant, today, expenses, seq, assigned, amt_entry, cat_entry,
                   tree, total_label, chart, msg, df, report, catVars>>

\* the user edits the Amount entry
TypeAmount(a) ==
    /\ DesktopIdle
    /\ amt_entry' = a
    /\ returned' = ""
    /\ UNCHANGED <<variant, today, expenses, seq, assigned, desc_entry, cat_entry,
                   tree, total_label, chart, msg, df, report, catVars>>

\* the user edits the Category entry
TypeCategory(c) ==
    /\ DesktopIdle
    /\ cat_entry' = c
    /\ returned' = ""
    /\ UNCHANGED <<variant, today, expenses, seq, assigned, desc_entry, amt_entry,
                   tree, total_label, chart, msg, df, report, catVars>>

\* an add that leaves the Category entry as the user filled it
CategoryKept(desc) == cat_entry

\* what the Category entry holds after a successful add
CategoryAfterAdd(desc) == suggest_category_v2(desc)

\* add_expense(), the Add button
add_expense_v2 ==
    /\ DesktopIdle
    /\ returned' = ""
    /\ LET desc == desc_entry
           amt == amt_entry
           cat == cat_entry
       IN IF desc = <<>> \/ amt = <<>>
          THEN /\ msg' = MsgRequired
               /\ UNCHANGED <<expenses, seq, assigned, desc_entry, amt_entry,
                              cat_entry, tree, total_label>>
          ELSE IF ~FloatParses(amt)
          THEN /\ msg' = MsgNotNumber
               /\ UNCHANGED <<expenses, seq, assigned, desc_entry, amt_entry,
                              cat_entry, tree, total_label>>
          ELSE /\ CanInsert
               /\ InsertRow(today, desc, FloatOf(amt), cat)
               /\ desc_entry' = <<>>
               /\ amt_entry' = <<>>
               /\ cat_entry' = CategoryAfterAdd(desc)
               /\ refresh_table
               /\ msg' = ""
    /\ UNCHANGED <<variant, today, chart, df, report, catVars>>

\* delete_expense(), the Delete button; selected is the position in the
\* Treeview of the row tree.focus() names, 0 when no row has the focus
delete_expense_v2(selected) ==
    /\ DesktopIdle
    /\ IF selected = 0
       THEN /\ msg' = MsgSelect
            /\ returned' = ""
            /\ UNCHANGED <<expenses, tree, total_label>>
       ELSE LET expense_id == tree[selected].id
            IN /\ expenses' = DeleteWhereId(expenses, expense_id)
               /\ refresh_table
               /\ returned' = "None"
               /\ msg' = ""
    /\ UNCHANGED <<variant, today, seq, assigned, desc_entry, amt_entry, cat_entry,
                   chart, df, report, catVars>>

\* show_chart(), the Show Chart button
show_chart ==
    /\ DesktopIdle
    /\ returned' = ""
    /\ LET data == SelectSumByCategory(expenses)
       IN IF DOMAIN data = {}
          THEN msg' = MsgNoData /\ chart' = {}
          ELSE msg' = "" /\ chart' = {data}
    /\ UNCHANGED <<variant, today, expenses, seq, assigned, desc_entry, amt_entry,
                   cat_entry, tree, total_label, df, report, catVars>>

\* the user closes the chart window
CloseChart ==
    /\ variant = "desktop"
    /\ chart # {}
    /\ chart' = {}
    /\ UNCHANGED <<variant, today, expenses, seq, assigned, returned, desc_entry,
                   amt_entry, cat_entry, tree, total_label, msg, df, report, catVars>>

\* the user dismisses the message box
DismissMessage ==
    /\ variant = "desktop"
    /\ msg # ""
    /\ msg' = ""
    /\ UNCHANGED <<variant, today, expenses, seq, assigned, returned, desc_entry,
                   amt_entry, cat_entry, tree, total_label, chart, df, report, catVars>>

----------------------------------------------------------------------------
(* Browser variant: every interaction runs the script from top to bottom   *)

\* add_expense(desc, amt, cat)
add_expense_v3(desc, amt, cat) == InsertRow(today, desc, amt, cat)

\* delete_expense(expense_id)
delete_expense_v3(expense_id) ==
    /\ expenses' = DeleteWhereId(expenses, expense_id)
    /\ returned' = "None"

\* the value of the Category text input: the suggestion unless the user
\* has typed over it
CategoryInputs(desc) ==
    {IF desc # <<>> THEN suggest_category_v3(desc) ELSE ""} \cup CatTexts

\* every value the Category text input can have
AllCategoryInputs == UNION {CategoryInputs(d) : d \in DescTexts}

\* the validation of the Add Expense button
AddIsValid(desc, amt) == desc # <<>> /\ amt > 0

\* a run of the script with the Add Expense button pressed
AddExpenseButton(desc, amt, cat) ==
    /\ variant = "browser"
    /\ returned' = ""
    /\ IF AddIsValid(desc, amt)
       THEN /\ CanInsert
            /\ add_expense_v3(desc, amt, cat)
            /\ msg' = MsgAdded
       ELSE /\ msg' = MsgInvalid
            /\ UNCHANGED <<expenses, seq, assigned>>
    /\ RenderBrowser
    /\ UNCHANGED <<variant, today, desc_entry, amt_entry, cat_entry, tree,
                   total_label, chart, catVars>>

\* the options of the selectbox: "None" and str(i) for the ids of the frame
DeleteOptions(frame) == {NoneLabel} \cup {Str(frame[i].id) : i \in 1..Len(frame)}

\* a run of the script with the Delete Selected button pressed; the button
\* exists only while the frame read at the top of the View tab is not empty
DeleteSelectedButton(delete_id) ==
    /\ variant = "browser"
    /\ Len(get_all_expenses(expenses)) > 0
    /\ delete_id \in DeleteOptions(get_all_expenses(expenses))
    /\ IF delete_id # NoneLabel
       THEN /\ delete_expense_v3(IntOf(delete_id))
            /\ msg' = MsgDeleted
       ELSE /\ msg' = ""
            /\ returned' = ""
            /\ UNCHANGED expenses
    /\ RenderBrowser
    /\ UNCHANGED <<variant, today, seq, assigned, desc_entry, amt_entry, cat_entry,
                   tree, total_label, chart, catVars>>

\* a run of the script with no button pressed (an input was edited)
Rerun ==
    /\ variant = "browser"
    /\ msg' = ""
    /\ returned' = ""
    /\ UNCHANGED <<expenses, seq, assigned>>
    /\ RenderBrowser
    /\ UNCHANGED <<variant, today, desc_entry, amt_entry, cat_entry, tree,
                   total_label, chart, catVars>>

----------------------------------------------------------------------------
(* The environment *)

\* midnight passes
Tick ==
    /\ today < MaxDay
    /\ today' = today + 1
    /\ UNCHANGED <<variant, expenses, seq, assigned, returned, desc_entry, amt_entry,
                   cat_entry, tree, total_label, chart, msg, df, report, catVars>>

\* the running program is closed and program v is started on the same
\* expenses.db: module level code of v runs up to its event loop
Launch(v) ==
    /\ variant' = v
    /\ UNCHANGED <<today, expenses, seq, assigned, catVars>>
    /\ returned' = ""
    /\ msg' = ""
    /\ DesktopFresh
    /\ IF v = "desktop"
       THEN refresh_table /\ df' = <<>> /\ report' = {}
       ELSE RenderBrowser /\ tree' = <<>> /\ total_label' = 0

Next ==
    \/ \E d \in DescTexts : TypeDescription(d)
    \/ \E a \in AmtTexts : TypeAmount(a)
    \/ \E c \in CatTexts : TypeCategory(c)
    \/ add_expense_v2
    \/ \E selected \in 0..Len(tree) : delete_expense_v2(selected)
    \/ show_chart
    \/ CloseChart
    \/ DismissMessage
    \/ \E desc \in DescTexts, amt \in AmtNumbers :
         \E cat \in CategoryInputs(desc) : AddExpenseButton(desc, amt, cat)
    \/ \E delete_id \in DeleteOptions(get_all_expenses(expenses)) :
         DeleteSelectedButton(delete_id)
    \/ Rerun
    \/ Tick
    \/ \E v \in {"desktop", "browser"} : Launch(v)

Spec == Init /\ [][Next]_vars

----------------------------------------------------------------------------
(* The categorizer on its own: suggest_category of either variant applied  *)
(* to a description drawn from a bounded set of texts                      *)

f_Pizza == <<"P","i","z","z","a">>
f_CAB == <<"C","A","B">>
f_doc == <<"d","o","c">>
f_tor == <<"t","o","r">>
f_xyz == <<"x","y","z">>
f_space == <<" ">>

\* the pieces descriptions are put together from
Fragments ==
    {f_Pizza, kw_lunch, kw_snack, kw_bus, kw_rent, f_CAB, kw_mall, f_doc, f_tor,
     f_xyz, f_space}

RECURSIVE Texts(_)
\* the texts made of at most n fragments
Texts(n) ==
    IF n = 0 THEN {<<>>}
    ELSE Texts(n - 1) \cup {t \o f : t \in Texts(n - 1), f \in Fragments}

InitCat ==
    /\ InitStore
    /\ variant = "desktop"
    /\ description \in Texts(MaxFrags)
    /\ label2 = ""
    /\ label3 = ""

\* the desktop variant's function is called on the description
CallSuggestV2 ==
    /\ label2 = ""
    /\ label2' = suggest_category_v2(description)
    /\ UNCHANGED <<storeVars, description, label3>>

\* the browser variant's function is called on the description
CallSuggestV3 ==
    /\ label3 = ""
    /\ label3' = suggest_category_v3(description)
    /\ UNCHANGED <<storeVars, description, label2>>

NextCat == CallSuggestV2 \/ CallSuggestV3

SpecCat == InitCat /\ [][NextCat]_vars

----------------------------------------------------------------------------
(* C1 *)

\* the keyword table of the specification, in priority order
TableGroups ==
    << [label |-> "Food",
        keywords |-> {kw_pizza, kw_food, kw_coffee, kw_lunch, kw_restaurant, kw_snack}],
       [label |-> "Travel",
        keywords |-> {kw_uber, kw_bus, kw_train, kw_petrol, kw_cab}],
       [label |-> "Bills",
        keywords |-> {kw_rent, kw_bill, kw_recharge, kw_electricity}],
       [label |-> "Health",
        keywords |-> {kw_doctor, kw_pharmacy, kw_medicine, kw_hospital}],
       [label |-> "Shopping",
        keywords |-> {kw_amazon, kw_clothes, kw_mall, kw_shopping}] >>

\* the groups one of whose keywords occurs in d, case-insensitively
GroupsHit(d) ==
    {i \in 1..Len(TableGroups) :
        \E w \in TableGroups[i].keywords : Contains(w, Lower(d))}

\* the label of the first group hit, Miscellaneous when none is
TableLabel(d) ==
    IF GroupsHit(d) = {} THEN "Miscellaneous"
    ELSE TableGroups[CHOOSE i \in GroupsHit(d) : \A j \in GroupsHit(d) : i <= j].label

\* C1: in both variants suggest_category returns, for every description, the
\* label of the first group of the six-keyword-Food table that has a keyword
\* occurring case-insensitively in the description, Miscellaneous when none has.
C1_SuggestFollowsTable ==
    /\ label2 # "" => label2 = TableLabel(description)
    /\ label3 # "" => label3 = TableLabel(description)

----------------------------------------------------------------------------
(* What the claims speak of *)

\* list_all(): the listing the running program holds
Listing == IF variant = "desktop" THEN tree ELSE df

\* the records of a listing
RowsOf(list) == {list[i] : i \in 1..Len(list)}

RECURSIVE TotalOf(_)
\* the sum of amount over a set of records
TotalOf(rows) ==
    IF rows = {} THEN 0
    ELSE LET r == CHOOSE q \in rows : TRUE IN r.amount + TotalOf(rows \ {r})

RECURSIVE ValuesSum(_)
\* the sum of the values of a mapping
ValuesSum(f) ==
    IF DOMAIN f = {} THEN 0
    ELSE LET k == CHOOSE x \in DOMAIN f : TRUE
         IN f[k] + ValuesSum([x \in (DOMAIN f) \ {k} |-> f[x]])

\* the step is a press of the desktop Add button
DesktopAddPressed == add_expense_v2

\* the step is a press of the desktop Add button that reads a negative amount
DesktopAmountNegative == FloatParses(amt_entry) /\ FloatOf(amt_entry) < 0

\* the step is a press of the desktop Add button that reads an amount >= 0
DesktopAmountNonNegative == FloatParses(amt_entry) /\ FloatOf(amt_entry) >= 0

\* the step shows one of the validation messages of the running program
Rejected ==
    /\ msg' \in {MsgRequired, MsgNotNumber, MsgInvalid}
    /\ expenses' = expenses

----------------------------------------------------------------------------
(* C2 *)

\* C2: an add attempt with an empty description or a negative amount is
\* rejected with a validation message and leaves the stored records as they were.
C2_InvalidAddRejected ==
    [][ /\ (DesktopAddPressed /\ (desc_entry = <<>> \/ DesktopAmountNegative))
            => Rejected
        /\ \A desc \in DescTexts, amt \in AmtNumbers, cat \in AllCategoryInputs :
             (AddExpenseButton(desc, amt, cat) /\ (desc = <<>> \/ amt < 0))
                => Rejected ]_vars

----------------------------------------------------------------------------
(* C3 *)

\* C3: an add attempt with a non-empty description and an amount >= 0, zero
\* included, is accepted and creates a record.
C3_ValidAddAccepted ==
    [][ /\ (DesktopAddPressed /\ desc_entry # <<>> /\ DesktopAmountNonNegative)
            => Cardinality(expenses') = Cardinality(expenses) + 1
        /\ \A desc \in DescTexts, amt \in AmtNumbers, cat \in AllCategoryInputs :
             (AddExpenseButton(desc, amt, cat) /\ desc # <<>> /\ amt >= 0)
                => Cardinality(expenses') = Cardinality(expenses) + 1 ]_vars

----------------------------------------------------------------------------
(* C4 *)

\* after the step the listing holds exactly one record that was not stored
\* before; it carries desc, amt, cat, today's date and an id no stored record
\* had, and every record stored before is still listed unchanged
RoundTrip(desc, amt, cat) ==
    \E r \in RowsOf(Listing') :
        /\ RowsOf(Listing') = expenses \cup {r}
        /\ r \notin expenses
        /\ Len(Listing') = Cardinality(expenses) + 1
        /\ r.description = desc
        /\ r.amount = amt
        /\ r.category = cat
        /\ r.date = today
        /\ \A q \in expenses : q.id # r.id

\* C4: a successful insert adds exactly one record to list_all, with the
\* inserted description, amount and category, today's date and a fresh id, and
\* keeps every earlier record unchanged.
C4_InsertRoundTrip ==
    [][ expenses' # expenses =>
          /\ DesktopAddPressed
                => RoundTrip(desc_entry, FloatOf(amt_entry), cat_entry)
          /\ \A desc \in DescTexts, amt \in AmtNumbers, cat \in AllCategoryInputs :
                AddExpenseButton(desc, amt, cat) => RoundTrip(desc, amt, cat) ]_vars

\* a record inserted on the second day is listed above an older record
C4_Witness ==
    /\ Len(Listing) = 2
    /\ Listing[1].id = seq
    /\ Listing[1].date = 2
    /\ Listing[1].date = today
    /\ Listing[2].date = 1

----------------------------------------------------------------------------
(* C5 *)

\* C5: the id of a newly inserted record is greater than every id assigned
\* before, so no id is ever reused, whatever has been deleted.
C5_IdsNeverReused ==
    [][ \A r \in expenses' \ expenses : \A i \in assigned : r.id > i ]_vars

\* a record was inserted after the record with the largest id had been deleted
C5_Witness ==
    /\ expenses # {}
    /\ \A r \in expenses : r.id = 2
    /\ assigned = {1, 2}

----------------------------------------------------------------------------
(* C6 *)

\* the step runs DELETE for id
DeleteCalled(id) ==
    \/ \E selected \in 1..Len(tree) :
          tree[selected].id = id /\ delete_expense_v2(selected)
    \/ DeleteSelectedButton(Str(id))

\* C6: delete(id) removes the record with that id if present and reports
\* whether a record was removed; no record with another id is removed, and a
\* delete of an id that is absent reports that nothing was removed and changes
\* nothing.
C6_DeleteReportsRemoval ==
    [][ \A id \in 1..MaxId :
          DeleteCalled(id) =>
            /\ expenses' = {r \in expenses : r.id # id}
            /\ returned' = (IF expenses' # expenses THEN "True" ELSE "False") ]_vars

----------------------------------------------------------------------------
(* C7 *)

----------------------------------------------------------------------------
(* C8 *)

\* the mapping has one key per value of field among the stored records, each
\* mapped to the sum of amount of its records, and its values add up to total
IsGroupedSum(f, field, total) ==
    /\ DOMAIN f = {r[field] : r \in expenses}
    /\ \A k \in DOMAIN f : f[k] = TotalOf({r \in expenses : r[field] = k})
    /\ ValuesSum(f) = total

----------------------------------------------------------------------------
(* C9 *)

\* C9: list_all() returns every stored record exactly once, ordered by
\* strictly descending id.
C9_ListingDescending ==
    /\ RowsOf(Listing) = expenses
    /\ Len(Listing) = Cardinality(expenses)
    /\ \A i, j \in 1..Len(Listing) : i < j => Listing[i].id > Listing[j].id

\* a listing of two records
C9_Witness ==
    /\ Len(Listing) = 2
    /\ Listing[1].id = 2
    /\ Listing[2].id = 1

----------------------------------------------------------------------------
(* C10 *)

\* C10: in the desktop variant the category input starts as Miscellaneous; a
\* successful add stores the content the category input had when Add was
\* pressed, empties the description and amount inputs and sets the category
\* input to suggest_category of the description stored; a rejected add leaves
\* the three inputs unchanged.
C10_DesktopInputs ==
    /\ variant = "desktop" => cat_entry = "Miscellaneous"
    /\ [][ /\ (expenses' # expenses /\ DesktopAddPressed) =>
                /\ \A r \in expenses' \ expenses :
                      /\ r.category = cat_entry
                      /\ cat_entry' = suggest_category_v2(r.description)
                /\ desc_entry' = <<>>
                /\ amt_entry' = <<>>
           /\ (expenses' = expenses /\ msg' # "" /\ DesktopAddPressed) =>
                UNCHANGED <<desc_entry, amt_entry, cat_entry>>
           /\ (variant' = "desktop" /\ Launch("desktop")) =>
                cat_entry' = "Miscellaneous" ]_vars

\* a record whose stored category is not the suggestion the input now holds
C10_Witness ==
    /\ variant = "desktop"
    /\ desc_entry = <<>>
    /\ amt_entry = <<>>
    /\ \E r \in expenses :
          /\ r.id = seq
          /\ r.category = "Travel"
          /\ suggest_category_v2(r.description) = "Miscellaneous"
          /\ cat_entry = "Miscellaneous"
          /\ RowsOf(tree) = expenses

====
